---------------------------- MODULE Spec2Model ----------------------------
(***************************************************************************)
(* Model of app.py: a Gradio browser for the Hugging Face Hub.             *)
(*                                                                         *)
(*   search_hub          catalog items -> rows of a pandas DataFrame       *)
(*   format_link         the display fragment of one row                   *)
(*   display_results     the result list, or the "no results" fallback     *)
(*   SwarmyTime          the aggregate report over a list of dicts         *)
(*   search_and_aggregate, load_metadata   the two callbacks               *)
(*                                                                         *)
(* Python values are tagged records (a string, an int, a float, the float  *)
(* nan, None), so that None and the string "Unknown", or 0 and a missing   *)
(* value, stay different.  A Python dict is a TLA+ record; a key the dict  *)
(* does not hold is a field the record does not have (DOMAIN).             *)
(***************************************************************************)
EXTENDS Integers, Sequences, FiniteSets, TLC

VARIABLES
    hub,     \* what the catalog returns for a search: a sequence of items
    call,    \* the last callback invocation: its arguments and how it ended
    df,      \* the value search_hub returned in the last search, if it returned
    data,    \* the list of dicts handed to SwarmyTime
    report,  \* what SwarmyTime did with data: a report, or an exception
    ret      \* what the last callback returned to the UI

vars == <<hub, call, df, data, report, ret>>

---------------------------------------------------------------------------
(* Bounds *)

MaxItems == 2      \* longest catalog result
MaxData == 2       \* longest list handed to SwarmyTime directly

---------------------------------------------------------------------------
(* Python values *)

StrV(s) == [t |-> "str", s |-> s, n |-> 0]
IntV(n) == [t |-> "int", s |-> "", n |-> n]
FloatV(n) == [t |-> "float", s |-> "", n |-> n]
NaN == [t |-> "nan", s |-> "", n |-> 0]
None == [t |-> "none", s |-> "", n |-> 0]

\* str(v), as an f-string renders a value
PyStr(v) ==
    CASE v.t = "str" -> v.s
      [] v.t = "int" -> ToString(v.n)
      [] v.t = "float" -> ToString(v.n) \o ".0"
      [] v.t = "nan" -> "nan"
      [] v.t = "none" -> "None"

\* sub in s, for Python strings
Contains(sub, s) ==
    \E i \in 1..(Len(s) - Len(sub) + 1) : SubSeq(s, i, i + Len(sub) - 1) = sub

\* item.get(key, default)
Get(item, key, default) == IF key \in DOMAIN item THEN item[key] ELSE default

Kinds == {"Models", "Datasets", "Spaces"}
SearchTypes == Kinds \cup {"Papers"}


---------------------------------------------------------------------------
(* The catalog (huggingface_hub), as the callbacks see it *)

\* The ids, authors and download counts the catalog's items carry.  An item
\* holds every attribute; an attribute without a value is None.
HubIds == {StrV("acme/widget"), StrV("acme/dataset-x"), StrV("bob/gadget"), None}
HubAuthors == {StrV("alice"), StrV("Unknown"), None}
HubDownloads == {IntV(2), None}

CatalogItem == [id : HubIds, author : HubAuthors, downloads : HubDownloads]

\* The results of one search, in the catalog's order.  The hub's ids are
\* unique, so no two items of a result share one.
Catalogs ==
    {c \in UNION {[1..n -> CatalogItem] : n \in 0..MaxItems} :
        \A i, j \in 1..Len(c) : (i # j /\ c[i].id = c[j].id) => c[i].id = None}

---------------------------------------------------------------------------
(* Raising and returning *)

Returned(v) == [raised |-> FALSE, exc |-> "", value |-> v]
Raised(e) == [raised |-> TRUE, exc |-> e, value |-> <<>>]

---------------------------------------------------------------------------
(* format_link *)

\* search_type[:-1]
DropLast(s) == IF Len(s) = 0 THEN s ELSE SubSeq(s, 1, Len(s) - 1)

\* A fragment with a wrong README path.
format_link_badreadme(item, number, search_type) ==
    [title |-> ToString(number) \o ". " \o PyStr(item.id),
     link |-> item.link,
     readme_link |-> item.link \o "/README.md",
     view |-> "View " \o DropLast(search_type),
     metadata |-> "Author: " \o PyStr(item.author)
                  \o (IF "downloads" \in DOMAIN item
                      THEN ", Downloads: " \o PyStr(item.downloads) ELSE "")]

\* The html fragment of one item, as the values that fill the template's
\* holes: the title, the two hrefs, the first anchor's text and the caption.
format_link(item, number, search_type) ==
    LET link == item.link
        readme_link == link \o "/blob/main/README.md"
        title == ToString(number) \o ". " \o PyStr(item.id)
        metadata == "Author: " \o PyStr(item.author)
                    \o (IF "downloads" \in DOMAIN item
                        THEN ", Downloads: " \o PyStr(item.downloads) ELSE "")
    IN [title |-> title,
        link |-> link,
        readme_link |-> readme_link,
        view |-> "View " \o DropLast(search_type),
        metadata |-> metadata]

---------------------------------------------------------------------------
(* pandas: DataFrame(data) and df.to_dict('records') *)

\* The values of one column after DataFrame(data) inferred its dtype.  A
\* column of ints stays int64; ints mixed with None become float64, None
\* turning into nan; a column that holds no number keeps its objects.
Column(values) ==
    LET tags == {values[i].t : i \in 1..Len(values)}
    IN IF "int" \in tags /\ "none" \in tags /\ tags \subseteq {"int", "none"}
       THEN [i \in 1..Len(values) |->
                IF values[i].t = "none" THEN NaN ELSE FloatV(values[i].n)]
       ELSE values

\* pd.DataFrame(data): the frame holds one column per key of the dicts, and
\* each column its inferred values.  link and formatted_link hold text, so
\* they stay object columns.  (An object column keeps None as None, as
\* pandas 2 does.)
DataFrame(rows) ==
    [len |-> Len(rows),
     columns |->
        IF Len(rows) = 0 THEN <<>>
        ELSE [k \in DOMAIN rows[1] |->
                 IF k \in {"link", "formatted_link"}
                 THEN [i \in 1..Len(rows) |-> rows[i][k]]
                 ELSE Column([i \in 1..Len(rows) |-> rows[i][k]])]]

\* df.iloc[index]: the row at a 0-based position, read across the columns
iloc(frame, index) == [k \in DOMAIN frame.columns |-> frame.columns[k][index + 1]]

\* df.to_dict('records'): one dict per row, holding the column values
to_dict_records(frame) == [i \in 1..frame.len |-> iloc(frame, i - 1)]

\* df.empty
Empty(frame) == frame.len = 0

---------------------------------------------------------------------------
(* search_hub *)

\* Numbering that starts at 0, as enumerate(data) would.
Enumerate_from0(rows, search_type) ==
    [i \in 1..Len(rows) |->
        LET item == rows[i] @@ [number |-> IntV(i - 1)]
        IN item @@ [formatted_link |-> format_link(item, i - 1, search_type)]]

\* for i, item in enumerate(data, 1): number and formatted_link
Enumerate(rows, search_type) ==
    [i \in 1..Len(rows) |->
        LET item == rows[i] @@ [number |-> IntV(i)]
        IN item @@ [formatted_link |-> format_link(item, i, search_type)]]

\* The list comprehension of the chosen branch; [] for any other type.
Comprehension(results, search_type) ==
    CASE search_type = "Models" ->
            [i \in 1..Len(results) |->
                [id |-> results[i].id, author |-> results[i].author,
                 downloads |-> results[i].downloads,
                 link |-> "https://huggingface.co/" \o PyStr(results[i].id)]]
      [] search_type = "Datasets" ->
            [i \in 1..Len(results) |->
                [id |-> results[i].id, author |-> results[i].author,
                 downloads |-> results[i].downloads,
                 link |-> "https://huggingface.co/datasets/" \o PyStr(results[i].id)]]
      [] search_type = "Spaces" ->
            [i \in 1..Len(results) |->
                [id |-> results[i].id, author |-> results[i].author,
                 link |-> "https://huggingface.co/spaces/" \o PyStr(results[i].id)]]
      [] OTHER -> <<>>

\* search_hub, given what the catalog returns for the query.
search_hub(results, search_type) ==
    DataFrame(Enumerate(Comprehension(results, search_type), search_type))

---------------------------------------------------------------------------
(* display_results *)

NoResults == [no_results |-> TRUE, fragments |-> <<>>]

\* A list that is rendered even when the frame is empty.
display_results_nofallback(frame) ==
    [no_results |-> FALSE,
     fragments |-> [i \in 1..frame.len |-> iloc(frame, i - 1).formatted_link]]

\* The scrolling div holding every row's fragment in order, or the
\* paragraph "No results found."
display_results(frame) ==
    IF ~Empty(frame)
    THEN [no_results |-> FALSE,
          fragments |-> [i \in 1..frame.len |-> iloc(frame, i - 1).formatted_link]]
    ELSE NoResults


---------------------------------------------------------------------------
(* SwarmyTime *)

\* aggregated["total_downloads"] += d
AddDownloads(total, d) ==
    CASE d.t = "int" /\ total.t = "int" -> Returned(IntV(total.n + d.n))
      [] d.t = "int" /\ total.t = "float" -> Returned(FloatV(total.n + d.n))
      [] d.t = "float" /\ total.t \in {"int", "float"} ->
            Returned(FloatV(total.n + d.n))
      [] d.t \in {"int", "float", "nan"} -> Returned(NaN)
      [] OTHER -> Raised("TypeError")

\* The chain with its elif turned into an if: a dict holding modelId falls
\* through to the second test as well.
Tally_fallthrough(item_types, item) ==
    LET first == IF "modelId" \in DOMAIN item
                 THEN [item_types EXCEPT !.Models = @ + 1] ELSE item_types
        id == Get(item, "id", StrV(""))
    IN IF id.t # "str" THEN Raised("TypeError")
       ELSE IF Contains("dataset", id.s)
       THEN Returned([first EXCEPT !.Datasets = @ + 1])
       ELSE Returned([first EXCEPT !.Spaces = @ + 1])

\* The if / elif / else chain that picks the bucket of one item.
Tally(item_types, item) ==
    IF "modelId" \in DOMAIN item
    THEN Returned([item_types EXCEPT !.Models = @ + 1])
    ELSE LET id == Get(item, "id", StrV(""))
         IN IF id.t # "str" THEN Raised("TypeError")
            ELSE IF Contains("dataset", id.s)
            THEN Returned([item_types EXCEPT !.Datasets = @ + 1])
            ELSE Returned([item_types EXCEPT !.Spaces = @ + 1])

\* aggregated before the loop
Aggregated0(items) ==
    [total_items |-> Len(items),
     unique_authors |-> {},
     total_downloads |-> IntV(0),
     item_types |-> [Models |-> 0, Datasets |-> 0, Spaces |-> 0]]

\* One pass of the loop body: the author, the downloads, the bucket.
LoopBody(aggregated, item) ==
    LET authors == aggregated.unique_authors \cup {Get(item, "author", StrV("Unknown"))}
        total == AddDownloads(aggregated.total_downloads, Get(item, "downloads", IntV(0)))
        types == Tally(aggregated.item_types, item)
    IN IF total.raised THEN total
       ELSE IF types.raised THEN types
       ELSE Returned([aggregated EXCEPT !.unique_authors = authors,
                                        !.total_downloads = total.value,
                                        !.item_types = types.value])

RECURSIVE Loop(_, _, _)
Loop(items, i, aggregated) ==
    IF i > Len(items) THEN Returned(aggregated)
    ELSE LET step == LoopBody(aggregated, items[i])
         IN IF step.raised THEN step ELSE Loop(items, i + 1, step.value)

SwarmyTime(items) ==
    LET done == Loop(items, 1, Aggregated0(items))
    IN IF done.raised THEN done
       ELSE Returned([done.value EXCEPT
                         !.unique_authors = Cardinality(done.value.unique_authors)])

---------------------------------------------------------------------------
(* load_metadata *)

\* What the callback does with the selected row, given whether the catalog's
\* lookup of that id fails.
load_metadata(index, frame, search_type, lookup_fails) ==
    IF frame.returned /\ ~Empty(frame.frame) /\ index < frame.frame.len
    THEN LET item_id == iloc(frame.frame, index).id
         IN CASE search_type = "Models" ->
                    IF lookup_fails
                    THEN Returned("Error loading model card: 404 Client Error")
                    ELSE Returned("ModelCard(" \o PyStr(item_id) \o ")")
              [] search_type = "Datasets" ->
                    IF lookup_fails THEN Raised("HfHubHTTPError")
                    ELSE Returned("DatasetInfo(" \o PyStr(item_id) \o ")")
              [] search_type = "Spaces" ->
                    IF lookup_fails THEN Raised("HfHubHTTPError")
                    ELSE Returned("SpaceInfo(" \o PyStr(item_id) \o ")")
              [] OTHER -> Returned("")
    ELSE Returned("")

\* Whether load_metadata reaches a catalog lookup at all.
Looks_up(index, frame, search_type) ==
    /\ frame.returned /\ ~Empty(frame.frame) /\ index < frame.frame.len
    /\ search_type \in Kinds

---------------------------------------------------------------------------
(* The callbacks *)

NoCall == [handler |-> "none", search_type |-> "", index |-> 0,
           catalog_calls |-> 0, catalog_failed |-> FALSE]
NoFrame == [returned |-> FALSE, frame |-> DataFrame(<<>>)]
NoReport == Raised("")
NoReturn == Raised("")

Init ==
    /\ hub \in Catalogs
    /\ call = NoCall
    /\ df = NoFrame
    /\ data = <<>>
    /\ report = NoReport
    /\ ret = NoReturn

\* The click handler: search, aggregate, render.  No try: what the catalog
\* or SwarmyTime raises leaves the callback.
search_and_aggregate(search_type, catalog_fails) ==
    /\ catalog_fails => search_type \in Kinds
    /\ call' = [handler |-> "search_and_aggregate", search_type |-> search_type,
                index |-> 0,
                catalog_calls |-> IF search_type \in Kinds THEN 1 ELSE 0,
                catalog_failed |-> catalog_fails]
    /\ IF catalog_fails
       THEN /\ df' = NoFrame
            /\ data' = <<>>
            /\ report' = NoReport
            /\ ret' = Raised("HfHubHTTPError")
       ELSE LET frame == search_hub(hub, search_type)
                aggregated == SwarmyTime(to_dict_records(frame))
            IN /\ df' = [returned |-> TRUE, frame |-> frame]
               /\ data' = to_dict_records(frame)
               /\ report' = aggregated
               /\ ret' = IF aggregated.raised THEN Raised(aggregated.exc)
                         ELSE Returned([html_results |-> display_results(frame),
                                        aggregated |-> aggregated.value])
    /\ UNCHANGED hub

\* The row-select handler, on the frame of the last search.  The catalog
\* has nothing to return for an id that is None.
select_row(index, search_type, lookup_fails) ==
    /\ lookup_fails => Looks_up(index, df, search_type)
    /\ (Looks_up(index, df, search_type) /\ iloc(df.frame, index).id.t # "str")
           => lookup_fails
    /\ call' = [handler |-> "load_metadata", search_type |-> search_type,
                index |-> index,
                catalog_calls |-> IF Looks_up(index, df, search_type) THEN 1 ELSE 0,
                catalog_failed |-> lookup_fails]
    /\ ret' = load_metadata(index, df, search_type, lookup_fails)
    /\ UNCHANGED <<hub, df, data, report>>

Search == \E search_type \in SearchTypes, catalog_fails \in BOOLEAN :
              search_and_aggregate(search_type, catalog_fails)

Select == \E index \in 0..MaxItems, search_type \in SearchTypes, lookup_fails \in BOOLEAN :
              select_row(index, search_type, lookup_fails)

\* The page as launched wires one event, the button's click.
Next == Search

Spec == Init /\ [][Next]_vars

---------------------------------------------------------------------------
(* With load_metadata wired to the selection of a result row *)

\* load_metadata reads nothing of a row but its id: catalogs whose items
\* differ in their ids alone.
IdCatalogs ==
    {c \in Catalogs :
        \A i \in 1..Len(c) : c[i].author = StrV("alice") /\ c[i].downloads = IntV(2)}

InitMeta ==
    /\ hub \in IdCatalogs
    /\ call = NoCall
    /\ df = NoFrame
    /\ data = <<>>
    /\ report = NoReport
    /\ ret = NoReturn

NextMeta == Search \/ Select

SpecMeta == InitMeta /\ [][NextMeta]_vars

---------------------------------------------------------------------------
(* SwarmyTime on its own: any list of dicts *)

Missing == [t |-> "missing", s |-> "", n |-> 0]

\* The dict holding the given values, without the keys whose value is Missing.
Dict(modelId, id, author, downloads) ==
    LET full == [modelId |-> modelId, id |-> id, author |-> author, downloads |-> downloads]
    IN [k \in {key \in DOMAIN full : full[key] # Missing} |-> full[k]]

Dicts ==
    {Dict(m, i, a, d) :
        m \in {Missing, StrV("acme/widget")},
        i \in {Missing, None, StrV("acme/widget"), StrV("acme/dataset-x")},
        a \in {Missing, None, StrV("alice")},
        d \in {Missing, None, IntV(2)}}

DictLists == UNION {[1..n -> Dicts] : n \in 0..MaxData}

InitAgg ==
    /\ hub = <<>>
    /\ call = NoCall
    /\ df = NoFrame
    /\ data \in DictLists
    /\ report = NoReport
    /\ ret = NoReturn

Aggregate ==
    /\ call.handler = "none"
    /\ call' = [NoCall EXCEPT !.handler = "SwarmyTime"]
    /\ report' = SwarmyTime(data)
    /\ UNCHANGED <<hub, df, data, ret>>

NextAgg == Aggregate

SpecAgg == InitAgg /\ [][NextAgg]_vars


---------------------------------------------------------------------------
(* Properties *)

IsSearch == call.handler = "search_and_aggregate"

\* The last callback was a search of a known kind that the catalog answered.
Answered == IsSearch /\ call.search_type \in Kinds /\ ~call.catalog_failed

AllIdsPresent == \A i \in 1..Len(hub) : hub[i].id.t = "str"

RECURSIVE SumDownloads(_, _)
\* The downloads of the first n records of a search of the last kind, a
\* missing count (None, or no downloads key as on a Space) counting 0.
SumDownloads(items, n) ==
    IF n = 0 THEN 0
    ELSE SumDownloads(items, n - 1)
         + (IF call.search_type # "Spaces" /\ items[n].downloads.t = "int"
            THEN items[n].downloads.n ELSE 0)

\* The author of a record with a missing author replaced by "Unknown".
NormalizedAuthor(item) == IF item.author = None THEN StrV("Unknown") ELSE item.author

ZeroTypes == [Models |-> 0, Datasets |-> 0, Spaces |-> 0]

\* C1: after a search of kind K that returned n items, the report counts
\* n under K and 0 under the two other kinds.
C1_ClassifiedByKind ==
    (Answered /\ ~report.raised) =>
        \A k \in Kinds :
            report.value.item_types[k] = IF k = call.search_type THEN Len(hub) ELSE 0

\* C2: total_downloads is the sum of the records' downloads, a missing or
\* null count contributing 0, and no missing count makes SwarmyTime raise.
C2_TotalDownloads ==
    (Answered /\ AllIdsPresent) =>
        /\ ~report.raised
        /\ report.value.total_downloads.t \in {"int", "float"}
        /\ report.value.total_downloads.n = SumDownloads(hub, Len(hub))

\* C3: unique_authors is the number of distinct authors once every missing
\* author is "Unknown"; so it is at most total_items.
C3_UniqueAuthors ==
    (Answered /\ ~report.raised) =>
        /\ report.value.unique_authors =
               Cardinality({NormalizedAuthor(hub[i]) : i \in 1..Len(hub)})
        /\ report.value.unique_authors <= report.value.total_items

NoNulls(items) ==
    \A i \in 1..Len(items) : \A k \in DOMAIN items[i] : items[i][k] # None

C5_ErrorMessageNotException ==
    call.catalog_failed =>
        /\ call.catalog_calls = 1
        /\ ~ret.raised
        /\ call.handler = "load_metadata" => SubSeq(ret.value, 1, 5) = "Error"

\* C6: a search whose search_type is none of the three kinds fails with
\* InvalidKind and yields no report.
C6_InvalidKind ==
    (IsSearch /\ call.search_type \notin Kinds) =>
        /\ ret.raised
        /\ ret.exc = "InvalidKind"
        /\ report.raised

\* C7: when an item of the catalog's result lacks its id, search_hub fails
\* with MalformedRecord: no frame, no fragment, no report.
C7_MalformedRecord ==
    (Answered /\ ~AllIdsPresent) =>
        /\ ~df.returned
        /\ ret.raised
        /\ ret.exc = "MalformedRecord"
        /\ report.raised

\* C8: search_hub returns one row per item, in the catalog's order; row i
\* carries item i's id and number i, and its title starts with "i. ".
C8_OneRowPerItemInOrder ==
    Answered =>
        /\ df.returned
        /\ df.frame.len = Len(hub)
        /\ \A i \in 1..Len(hub) :
              /\ iloc(df.frame, i - 1).id = hub[i].id
              /\ iloc(df.frame, i - 1).number = IntV(i)
              /\ SubSeq(iloc(df.frame, i - 1).formatted_link.title, 1, Len(ToString(i)) + 2)
                    = ToString(i) \o ". "

\* A search that returned two rows with different ids.
C8_Witness ==
    /\ Answered
    /\ df.returned
    /\ df.frame.len = 2
    /\ iloc(df.frame, 0).id = StrV("acme/dataset-x")
    /\ iloc(df.frame, 1).id = StrV("acme/widget")
    /\ iloc(df.frame, 1).formatted_link.title = "2. acme/widget"

\* C9: a row's link is the hub's address, the kind's path and the id; the
\* fragment links to it, and its README link is that link followed by
\* /blob/main/README.md.
C9_LinkDerivation ==
    (Answered /\ df.returned) =>
        \A i \in 1..df.frame.len :
            LET row == iloc(df.frame, i - 1)
            IN /\ hub[i].id.t = "str" =>
                     row.link =
                         (CASE call.search_type = "Models" -> "https://huggingface.co/"
                            [] call.search_type = "Datasets" -> "https://huggingface.co/datasets/"
                            [] call.search_type = "Spaces" -> "https://huggingface.co/spaces/")
                         \o hub[i].id.s
               /\ row.formatted_link.link = row.link
               /\ row.formatted_link.readme_link = row.link \o "/blob/main/README.md"

\* A Datasets search that returned two ids.
C9_Witness ==
    /\ Answered
    /\ call.search_type = "Datasets"
    /\ df.returned
    /\ df.frame.len = 2
    /\ iloc(df.frame, 0).id = StrV("acme/widget")
    /\ iloc(df.frame, 1).id = StrV("bob/gadget")
    /\ iloc(df.frame, 0).link = "https://huggingface.co/datasets/acme/widget"

\* C10: a search of a known kind that returns no item does not raise; it
\* renders the "no results" fallback and reports zero everywhere.
C10_EmptySearch ==
    (Answered /\ Len(hub) = 0) =>
        /\ ~ret.raised
        /\ ret.value.html_results.no_results
        /\ ret.value.html_results.fragments = <<>>
        /\ ret.value.aggregated =
               [total_items |-> 0, unique_authors |-> 0,
                total_downloads |-> IntV(0), item_types |-> ZeroTypes]

\* An answered Spaces search over an empty catalog.
C10_Witness ==
    /\ Answered
    /\ call.search_type = "Spaces"
    /\ Len(hub) = 0
    /\ ~ret.raised

=============================================================================
